---- MODULE Spec2Model ----
(***************************************************************************)
(* TerminalChatWidget and TerminalChatResponseEditor                       *)
(* (src/vs/workbench/contrib/terminalContrib/chat/browser/                 *)
(* terminalChatWidget.ts) as a state machine.                              *)
(*                                                                         *)
(* Text is a sequence of one-character strings, so that String.trim is     *)
(* computed and not assumed.  `textModels` is the model service's          *)
(* registry, keyed by the URI fragment: the scheme and the path of the URI *)
(* built at lines 233-237 are the same for every lookup one panel makes.   *)
(* The continuation of the model promise (lines 238-250) is a step of its  *)
(* own: it runs after the synchronous code that created the editor, and    *)
(* callers may have run further panel operations in that code.             *)
(***************************************************************************)
EXTENDS Integers, Sequences, FiniteSets, TLC

VARIABLES
    containerHidden,      \* _container.classList contains 'hide'
    focusedContextKey,    \* _focusedContextKey
    visibleContextKey,    \* _visibleContextKey
    chat,                 \* observable state of _inlineChatWidget
    responseEditor,       \* _responseEditor (present = FALSE: undefined)
    pending,              \* model continuations of disposed response editors
    numCreated,           \* response editors constructed so far
    numDisposed,          \* response editors disposed so far
    elements,             \* response editor elements inside _container
    textModels,           \* IModelService: URI fragment -> text model
    registered,           \* ILanguageService: the registered language ids
    calls,                \* collaborator calls made by the last operation, in order
    lastOp,               \* the last operation and its arguments
    lastRevealHide,       \* history: the most recent of reveal()/hide()
    rendered              \* history: the last renderTerminalCommand since hide()

vars == <<containerHidden, focusedContextKey, visibleContextKey, chat,
          responseEditor, pending, numCreated, numDisposed, elements,
          textModels, registered, calls, lastOp, lastRevealHide, rendered>>

----------------------------------------------------------------------------
(* Bounds and input sets *)

MaxEditors == 3

Empty == <<>>
CmdA == <<"a">>
CmdB == <<" ", "b", " ">>
CmdBlank == <<" ", " ">>

Commands == {CmdA, CmdB, CmdBlank}
InputValues == {Empty, <<" ">>}
Messages == {"msg"}
NoShell == "<undefined>"
ShellTypes == {"fish", "zsh", "bash", "sh", "pwsh", "cmd", NoShell}
KnownLanguages == {"fish", "zsh", "bash"}
ProgressKinds == {"content", "markdownContent", "command", "<undefined>"}

DefaultPlaceholder == "Ask how to do something in the terminal"
DefaultInfo == "AI-generated commands may be incorrect"
NoMessage == "<undefined>"

----------------------------------------------------------------------------
(* String.prototype.trim *)

IsWhitespace(c) == c \in {" ", "\t", "\n"}

RECURSIVE TrimStart(_)
TrimStart(s) ==
    IF s = <<>> THEN s
    ELSE IF IsWhitespace(Head(s)) THEN TrimStart(Tail(s)) ELSE s

RECURSIVE TrimEnd(_)
TrimEnd(s) ==
    IF s = <<>> THEN s
    ELSE IF IsWhitespace(s[Len(s)]) THEN TrimEnd(SubSeq(s, 1, Len(s) - 1)) ELSE s

Trim_StartOnly(s) == TrimStart(s)

Trim(s) == TrimEnd(TrimStart(s))

----------------------------------------------------------------------------
(* Records *)

NoEditor == [present |-> FALSE, id |-> 0, fragment |-> Empty, shellType |-> NoShell,
             shown |-> FALSE, hasModel |-> FALSE]

NoTextModel == [exists |-> FALSE, value |-> Empty, languageId |-> "plaintext"]

NotRendered == [since |-> FALSE, command |-> Empty]

Op(name, text, flag) == [op |-> name, text |-> text, flag |-> flag]

Call(name, text, flag) == [call |-> name, text |-> text, flag |-> flag]

----------------------------------------------------------------------------
(* TerminalChatResponseEditor *)

\* CodeEditorWidget.getValue / setValue act on the attached text model and do
\* nothing ('' for getValue) while the editor has no model.
CodeEditorGetValue(ed, tms) ==
    IF ed.hasModel THEN tms[ed.fragment].value ELSE Empty

CodeEditorSetValue(ed, tms, value) ==
    IF ed.hasModel THEN [tms EXCEPT ![ed.fragment].value = value] ELSE tms

EditorGetValue(ed, tms) == CodeEditorGetValue(ed, tms)

EditorSetValue(ed, tms, value) == CodeEditorSetValue(ed, tms, value)

\* _getTextModel: the registry after the lookup-or-create for `fragment`
GetTextModel(tms, fragment) ==
    IF tms[fragment].exists
    THEN tms
    ELSE [tms EXCEPT ![fragment] = [exists |-> TRUE, value |-> fragment,
                                    languageId |-> "plaintext"]]

GetLanguageFromShell_NoFallback(shell, langs) ==
    CASE shell = "fish" -> "fish"
      [] shell = "zsh"  -> "zsh"
      [] shell = "bash" -> "bash"
      [] shell = "sh"   -> "shellscript"
      [] shell = "pwsh" -> "powershell"
      [] OTHER          -> "plaintext"

GetLanguageFromShell(shell, langs) ==
    CASE shell = "fish" -> IF "fish" \in langs THEN "fish" ELSE "shellscript"
      [] shell = "zsh"  -> IF "zsh" \in langs THEN "zsh" ELSE "shellscript"
      [] shell = "bash" -> IF "bash" \in langs THEN "bash" ELSE "shellscript"
      [] shell = "sh"   -> "shellscript"
      [] shell = "pwsh" -> "powershell"
      [] OTHER          -> "plaintext"

\* the constructor, up to the point where the model promise is pending
NewEditor(id, command, shellType) ==
    [present |-> TRUE, id |-> id, fragment |-> command, shellType |-> shellType,
     shown |-> TRUE, hasModel |-> FALSE]

\* the continuation an editor still owes: none once its model is attached
Continuation(ed) ==
    IF ed.present /\ ~ed.hasModel
    THEN {[fragment |-> ed.fragment, shellType |-> ed.shellType]}
    ELSE {}

EditorHide(ed) == IF ed.present THEN [ed EXCEPT !.shown = FALSE] ELSE ed

EditorShow(ed) == IF ed.present THEN [ed EXCEPT !.shown = TRUE] ELSE ed

----------------------------------------------------------------------------
(* TerminalChatWidget *)

InitWith(languageSets) ==
    /\ containerHidden = FALSE
    /\ focusedContextKey = FALSE
    /\ visibleContextKey = FALSE
    /\ chat = [placeholder |-> DefaultPlaceholder, info |-> DefaultInfo,
               message |-> NoMessage, followUps |-> FALSE,
               progress |-> FALSE, toolbar |-> FALSE, value |-> Empty]
    /\ responseEditor = NoEditor
    /\ pending = {}
    /\ numCreated = 0
    /\ numDisposed = 0
    /\ elements = 0
    /\ textModels = [c \in Commands |-> NoTextModel]
    /\ registered \in languageSets
    /\ calls = <<>>
    /\ lastOp = Op("constructor", Empty, FALSE)
    /\ lastRevealHide = "none"
    /\ rendered = NotRendered

\* a language service that knows bash; SpecLanguage ranges over every set
Init == InitWith({{"bash"}})

\* _reset()
Reset(c) == [c EXCEPT !.placeholder = DefaultPlaceholder, !.info = DefaultInfo]

ShouldCreate_Always == TRUE

\* the test of line 94
ShouldCreate == ~responseEditor.present

renderTerminalCommand(command, shellType) ==
    /\ IF ShouldCreate
       THEN /\ numCreated < MaxEditors
            /\ numCreated' = numCreated + 1
            /\ elements' = elements + 1
            /\ responseEditor' = NewEditor(numCreated + 1, command, shellType)
            /\ textModels' = EditorSetValue(responseEditor',
                                            GetTextModel(textModels, command), command)
       ELSE /\ responseEditor' = EditorShow(responseEditor)
            /\ textModels' = EditorSetValue(responseEditor', textModels, command)
            /\ UNCHANGED <<numCreated, elements>>
    /\ calls' = <<Call("acceptResponse", command, FALSE)>>
    /\ lastOp' = Op("renderTerminalCommand", command, FALSE)
    /\ rendered' = [since |-> TRUE, command |-> command]
    /\ UNCHANGED <<containerHidden, focusedContextKey, visibleContextKey, chat,
                   pending, numDisposed, registered, lastRevealHide>>

\* the continuation of the model promise (lines 238-250) of the editor the panel
\* holds; lastOp.flag tells whether it directly follows renderTerminalCommand
ModelResolved ==
    /\ responseEditor.present
    /\ ~responseEditor.hasModel
    /\ responseEditor' = [responseEditor EXCEPT !.hasModel = TRUE]
    /\ textModels' = [textModels EXCEPT ![responseEditor.fragment].languageId =
                          GetLanguageFromShell(responseEditor.shellType, registered)]
    /\ calls' = <<>>
    /\ lastOp' = Op("modelResolved", responseEditor.fragment,
                    lastOp.op = "renderTerminalCommand")
    /\ UNCHANGED <<containerHidden, focusedContextKey, visibleContextKey, chat,
                   pending, numCreated, numDisposed, elements, registered,
                   lastRevealHide, rendered>>

\* the same continuation, of an editor that was disposed before it ran
ModelResolvedDisposed ==
    \E k \in pending :
        /\ pending' = pending \ {k}
        /\ textModels' = [textModels EXCEPT ![k.fragment].languageId =
                              GetLanguageFromShell(k.shellType, registered)]
        /\ calls' = <<>>
        /\ lastOp' = Op("modelResolvedDisposed", k.fragment, FALSE)
        /\ UNCHANGED <<containerHidden, focusedContextKey, visibleContextKey, chat,
                       responseEditor, numCreated, numDisposed, elements,
                       registered, lastRevealHide, rendered>>

renderMessage(message) ==
    /\ responseEditor' = EditorHide(responseEditor)
    /\ chat' = [chat EXCEPT !.message = message]
    /\ calls' = <<Call("acceptResponse", <<message>>, FALSE)>>
    /\ lastOp' = Op("renderMessage", Empty, FALSE)
    /\ UNCHANGED <<containerHidden, focusedContextKey, visibleContextKey,
                   pending, numCreated, numDisposed, elements, textModels,
                   registered, lastRevealHide, rendered>>

reveal ==
    /\ containerHidden' = FALSE
    /\ focusedContextKey' = TRUE
    /\ visibleContextKey' = TRUE
    /\ calls' = <<Call("layout", Empty, FALSE), Call("chatFocus", Empty, FALSE)>>
    /\ lastOp' = Op("reveal", Empty, FALSE)
    /\ lastRevealHide' = "reveal"
    /\ UNCHANGED <<chat, responseEditor, pending, numCreated, numDisposed,
                   elements, textModels, registered, rendered>>

\* _responseEditor?.dispose() and _responseEditor = undefined (lines 116-117):
\* the element leaves the container, a continuation still owed stays owed
DisposeResponseEditor_KeepReference ==
    /\ UNCHANGED <<responseEditor, pending>>
    /\ numDisposed' = numDisposed + (IF responseEditor.present THEN 1 ELSE 0)
    /\ elements' = elements - (IF responseEditor.present THEN 1 ELSE 0)

DisposeResponseEditor_KeepElement ==
    /\ responseEditor' = NoEditor
    /\ pending' = pending \cup Continuation(responseEditor)
    /\ numDisposed' = numDisposed + (IF responseEditor.present THEN 1 ELSE 0)
    /\ UNCHANGED elements

DisposeResponseEditor ==
    /\ responseEditor' = NoEditor
    /\ pending' = pending \cup Continuation(responseEditor)
    /\ numDisposed' = numDisposed + (IF responseEditor.present THEN 1 ELSE 0)
    /\ elements' = elements - (IF responseEditor.present THEN 1 ELSE 0)

\* the context key writes of lines 122-123
ClearContextKeys_FocusOnly ==
    /\ focusedContextKey' = FALSE
    /\ UNCHANGED visibleContextKey

ClearContextKeys ==
    /\ focusedContextKey' = FALSE
    /\ visibleContextKey' = FALSE

\* the body of hide(); `before` are the collaborator calls the caller made first
HideBody(before) ==
    /\ containerHidden' = TRUE
    /\ chat' = [Reset(chat) EXCEPT !.message = NoMessage, !.followUps = FALSE,
                                   !.progress = FALSE, !.toolbar = FALSE]
    /\ DisposeResponseEditor
    /\ ClearContextKeys
    /\ calls' = before \o <<Call("instanceFocus", Empty, FALSE)>>
    /\ lastRevealHide' = "hide"
    /\ rendered' = NotRendered
    /\ UNCHANGED <<numCreated, textModels, registered>>

hide ==
    /\ HideBody(<<>>)
    /\ lastOp' = Op("hide", Empty, FALSE)

focus ==
    /\ calls' = <<Call("chatFocus", Empty, FALSE)>>
    /\ lastOp' = Op("focus", Empty, FALSE)
    /\ UNCHANGED <<containerHidden, focusedContextKey, visibleContextKey, chat,
                   responseEditor, pending, numCreated, numDisposed, elements,
                   textModels, registered, lastRevealHide, rendered>>

\* input()
input == chat.value

IsFalsy_Blank(present, value) == ~present \/ Trim(value) = Empty

\* `!value` of line 137: the argument is undefined or the empty string
IsFalsy(present, value) == ~present \/ value = Empty

setValue(present, value) ==
    /\ chat' = [chat EXCEPT !.value = IF present THEN value ELSE Empty]
    /\ responseEditor' = IF IsFalsy(present, value)
                         THEN EditorHide(responseEditor)
                         ELSE responseEditor
    /\ calls' = <<>>
    /\ lastOp' = Op("setValue", IF present THEN value ELSE Empty, present)
    /\ UNCHANGED <<containerHidden, focusedContextKey, visibleContextKey,
                   pending, numCreated, numDisposed, elements, textModels,
                   registered, lastRevealHide, rendered>>

AcceptValue_NoTrim ==
    IF responseEditor.present
    THEN EditorGetValue(responseEditor, textModels)
    ELSE Empty

AcceptValue_ShownOnly ==
    IF responseEditor.present /\ responseEditor.shown
    THEN Trim(EditorGetValue(responseEditor, textModels))
    ELSE Empty

\* line 143; Empty also stands for undefined, both are falsy at line 144
AcceptValue ==
    IF responseEditor.present
    THEN Trim(EditorGetValue(responseEditor, textModels))
    ELSE Empty

acceptCommand(shouldExecute) ==
    /\ lastOp' = Op("acceptCommand", Empty, shouldExecute)
    /\ IF AcceptValue = Empty
       THEN /\ calls' = <<>>
            /\ UNCHANGED <<containerHidden, focusedContextKey, visibleContextKey,
                           chat, responseEditor, pending, numCreated, numDisposed,
                           elements, textModels, registered, lastRevealHide,
                           rendered>>
       ELSE HideBody(<<Call("runCommand", AcceptValue, shouldExecute)>>)

updateProgress(kind) ==
    /\ chat' = [chat EXCEPT !.progress = (kind \in {"content", "markdownContent"})]
    /\ calls' = <<>>
    /\ lastOp' = Op("updateProgress", Empty, FALSE)
    /\ UNCHANGED <<containerHidden, focusedContextKey, visibleContextKey,
                   responseEditor, pending, numCreated, numDisposed, elements,
                   textModels, registered, lastRevealHide, rendered>>

\* a caller decorating the chat widget through the public inlineChatWidget getter
inlineChatWidget ==
    /\ chat' = [chat EXCEPT !.placeholder = "custom", !.followUps = TRUE,
                            !.toolbar = TRUE]
    /\ calls' = <<>>
    /\ lastOp' = Op("inlineChatWidget", Empty, FALSE)
    /\ UNCHANGED <<containerHidden, focusedContextKey, visibleContextKey,
                   responseEditor, pending, numCreated, numDisposed, elements,
                   textModels, registered, lastRevealHide, rendered>>

----------------------------------------------------------------------------
(* Specifications *)

\* the response editor and the terminal: every command, one shell type
Next ==
    \/ \E c \in Commands : renderTerminalCommand(c, "bash")
    \/ ModelResolved
    \/ ModelResolvedDisposed
    \/ \E m \in Messages : renderMessage(m)
    \/ reveal
    \/ hide
    \/ \E p \in BOOLEAN, v \in InputValues : setValue(p, v)
    \/ \E x \in BOOLEAN : acceptCommand(x)

Spec == Init /\ [][Next]_vars

\* the panel and the chat widget: every operation, one command
NextPanel ==
    \/ \E c \in {CmdA, CmdB} : renderTerminalCommand(c, NoShell)
    \/ ModelResolved
    \/ ModelResolvedDisposed
    \/ \E m \in Messages : renderMessage(m)
    \/ reveal
    \/ hide
    \/ focus
    \/ \E p \in BOOLEAN, v \in InputValues : setValue(p, v)
    \/ \E x \in BOOLEAN : acceptCommand(x)
    \/ \E k \in ProgressKinds : updateProgress(k)
    \/ inlineChatWidget

SpecPanel == Init /\ [][NextPanel]_vars

\* the language of the text model: every shell type and set of languages
NextLanguage ==
    \/ \E s \in ShellTypes : renderTerminalCommand(CmdA, s)
    \/ ModelResolved
    \/ ModelResolvedDisposed
    \/ hide

SpecLanguage == InitWith(SUBSET KnownLanguages) /\ [][NextLanguage]_vars

----------------------------------------------------------------------------
(* Observations used by the properties *)

\* getValue() of the response sub-widget the panel holds
ResponseText ==
    IF responseEditor.hasModel THEN textModels[responseEditor.fragment].value ELSE Empty

IsBlank(s) == \A i \in 1..Len(s) : IsWhitespace(s[i])

\* t is s without its leading and trailing whitespace
IsTrimOf(t, s) ==
    \E i \in 1..(Len(s) + 1), j \in 0..Len(s) :
        /\ t = SubSeq(s, i, j)
        /\ \A k \in 1..Len(s) : (k < i \/ k > j) => IsWhitespace(s[k])
        /\ t # Empty => ~IsWhitespace(t[1]) /\ ~IsWhitespace(t[Len(t)])

Forwarded == lastOp.op = "acceptCommand" /\ calls # <<>>

InstanceFocus == Call("instanceFocus", Empty, FALSE)

----------------------------------------------------------------------------
(* Properties *)

C1_Flags ==
    /\ lastRevealHide = "reveal" => visibleContextKey /\ focusedContextKey
    /\ lastRevealHide = "hide" => ~visibleContextKey /\ ~focusedContextKey

C1_Frame ==
    (lastOp'.op \notin {"reveal", "hide"} /\ ~Forwarded')
        => UNCHANGED <<focusedContextKey, visibleContextKey, lastRevealHide>>

\* C1: once reveal() or hide() has run, the visibility flag and the focus flag
\* are both true if the most recent of the two was reveal() and both false if
\* it was hide() (direct, or inside a forwarding acceptCommand); no other
\* operation changes either flag.
C1_RevealHideFlags == []C1_Flags /\ [][C1_Frame]_vars

C1_Witness ==
    /\ lastRevealHide = "reveal"
    /\ numDisposed >= 1
    /\ lastOp.op = "updateProgress"
    /\ visibleContextKey /\ focusedContextKey

C2_Step ==
    (/\ lastOp'.op = "acceptCommand"
     /\ responseEditor.present
     /\ ~IsBlank(ResponseText))
    => /\ Len(calls') = 2
       /\ calls'[1].call = "runCommand"
       /\ IsTrimOf(calls'[1].text, ResponseText)
       /\ calls'[1].flag = lastOp'.flag
       /\ calls'[2] = InstanceFocus
       /\ containerHidden'
       /\ ~responseEditor'.present

\* C2: when the response sub-widget exists and its text is not blank,
\* acceptCommand(execute) makes exactly one runCommand call, with the trimmed
\* text and the execute flag, and then hides the panel (the terminal is
\* focused by hide() after the command was forwarded).
C2_AcceptForwardsTrimmed == [][C2_Step]_vars

C2_Witness ==
    /\ lastOp = Op("acceptCommand", Empty, FALSE)
    /\ calls = <<Call("runCommand", <<"b">>, FALSE), InstanceFocus>>
    /\ containerHidden

C3_Step ==
    (/\ lastOp'.op = "acceptCommand"
     /\ (~responseEditor.present \/ IsBlank(ResponseText)))
    => /\ calls' = <<>>
       /\ UNCHANGED <<containerHidden, focusedContextKey, visibleContextKey,
                      responseEditor, textModels, chat, numDisposed, elements>>

\* C3: when the response sub-widget is absent or its text is blank,
\* acceptCommand forwards nothing and hides nothing: panel visibility, both
\* flags, the response sub-widget and the chat input stay as they were.
C3_AcceptNoOp == [][C3_Step]_vars

C3_Witness ==
    /\ lastOp.op = "acceptCommand"
    /\ calls = <<>>
    /\ responseEditor.present
    /\ responseEditor.hasModel
    /\ ResponseText = CmdBlank
    /\ ~containerHidden

AfterRenderAndAttach ==
    \/ lastOp.op = "renderTerminalCommand" /\ responseEditor.hasModel
    \/ lastOp.op = "modelResolved" /\ lastOp.flag

\* C4: after renderTerminalCommand(command) has completed and the text buffer
\* has been attached, the response sub-widget exists, is shown and its text is
\* command.
C4_TextIsCommand ==
    AfterRenderAndAttach =>
        /\ responseEditor.present
        /\ responseEditor.shown
        /\ ResponseText = rendered.command

C5_Live ==
    /\ numCreated - numDisposed = (IF responseEditor.present THEN 1 ELSE 0)
    /\ elements = numCreated - numDisposed

C5_Step ==
    /\ numCreated' # numCreated => ~responseEditor.present
    /\ (lastOp'.op = "renderTerminalCommand" /\ responseEditor.present)
        => /\ responseEditor'.present
           /\ responseEditor'.id = responseEditor.id
           /\ UNCHANGED <<numCreated, numDisposed, elements>>

\* C5: a response sub-widget is created only when the panel holds none, the
\* panel holds at most one live response sub-widget, and renderTerminalCommand
\* on a panel that holds one keeps that instance.
C5_EditorReused == []C5_Live /\ [][C5_Step]_vars

C5_Witness ==
    /\ lastOp.op = "renderTerminalCommand"
    /\ responseEditor.present
    /\ responseEditor.hasModel
    /\ responseEditor.fragment # rendered.command
    /\ ResponseText = rendered.command

C6_Step ==
    lastOp'.op = "setValue" =>
        /\ chat'.value = lastOp'.text
        /\ input' = lastOp'.text
        /\ UNCHANGED <<textModels, numCreated, numDisposed, elements>>
        /\ lastOp'.text = Empty =>
              responseEditor' = IF responseEditor.present
                                THEN [responseEditor EXCEPT !.shown = FALSE]
                                ELSE responseEditor
        /\ lastOp'.text # Empty => UNCHANGED responseEditor

\* C6: setValue(v) sets the chat input to v ('' when v is absent); an empty or
\* absent v also hides, without disposing, the response sub-widget; a
\* non-empty v leaves the response sub-widget as it was; input() returns the
\* value set.
C6_SetValue == [][C6_Step]_vars

C6_Witness ==
    /\ lastOp = Op("setValue", <<" ">>, TRUE)
    /\ input = <<" ">>
    /\ responseEditor.present
    /\ responseEditor.shown

ExpectedLanguage(shell, langs) ==
    IF shell \in {"fish", "zsh", "bash"}
    THEN (IF shell \in langs THEN shell ELSE "shellscript")
    ELSE IF shell = "sh" THEN "shellscript"
    ELSE IF shell = "pwsh" THEN "powershell"
    ELSE "plaintext"

C7_Table ==
    \A s \in ShellTypes, l \in SUBSET KnownLanguages :
        GetLanguageFromShell(s, l) = ExpectedLanguage(s, l)

C7_Assigned ==
    lastOp.op = "modelResolved" =>
        textModels[responseEditor.fragment].languageId =
            ExpectedLanguage(responseEditor.shellType, registered)

C7_Once ==
    /\ (\E c \in Commands : textModels'[c].languageId # textModels[c].languageId)
          => lastOp'.op \in {"modelResolved", "modelResolvedDisposed"}
    /\ lastOp'.op = "modelResolved"
          => ~responseEditor.hasModel /\ responseEditor'.hasModel
    /\ (responseEditor.hasModel /\ responseEditor'.id = responseEditor.id)
          => responseEditor'.hasModel

\* C7: the shell type to language mapping is the table of the specification for
\* every shell type (an absent one too) and every set of registered
\* languages, and the language is assigned to the text buffer by the
\* continuation that attaches it, which runs once per response sub-widget.
C7_LanguageFromShell == [](C7_Table /\ C7_Assigned) /\ [][C7_Once]_vars

C7_Witness ==
    /\ lastOp.op = "modelResolved"
    /\ responseEditor.shellType = "zsh"
    /\ "zsh" \notin registered
    /\ textModels[responseEditor.fragment].languageId = "shellscript"

C8_AfterHide ==
    lastOp.op = "hide" =>
        /\ containerHidden
        /\ chat.placeholder = DefaultPlaceholder
        /\ ~responseEditor.present
        /\ elements = 0
        /\ numDisposed = numCreated
        /\ chat.message = NoMessage
        /\ ~chat.followUps
        /\ ~chat.progress
        /\ ~chat.toolbar
        /\ calls = <<InstanceFocus>>

\* a hide() step taken in the state a hide() left changes nothing
C8_Again == ~(lastOp.op = "hide" /\ lastOp'.op = "hide")

\* C8: after hide() the panel is invisible, the placeholder is the default,
\* the response sub-widget is disposed and absent and its element is out of
\* the panel, message, follow-ups, progress and toolbar are cleared and the
\* terminal was focused; hide() in that state leaves the state as it is.
C8_Hide == []C8_AfterHide /\ [][C8_Again]_vars

C8_Witness ==
    /\ lastOp.op = "hide"
    /\ numDisposed = 2
    /\ numCreated = 2
    /\ lastRevealHide = "hide"
    /\ chat.value = <<" ">>

C9_Step == Forwarded' => rendered.since

\* C9: acceptCommand forwards a command only if renderTerminalCommand ran
\* since the last hide(); a forwarding acceptCommand hides, so the next
\* forward needs a new renderTerminalCommand.
C9_ForwardedAtMostOnce == [][C9_Step]_vars

C9_Witness ==
    /\ Forwarded
    /\ numDisposed = 2
    /\ ~rendered.since
    /\ ~responseEditor.present

HidesResponse ==
    \/ lastOp'.op = "renderMessage"
    \/ lastOp'.op = "setValue" /\ lastOp'.text = Empty

C10_Step ==
    /\ (HidesResponse /\ responseEditor.present)
        => /\ responseEditor' = [responseEditor EXCEPT !.shown = FALSE]
           /\ ResponseText' = ResponseText
           /\ UNCHANGED <<numDisposed, elements>>
    /\ lastOp'.op = "acceptCommand"
        => /\ Forwarded' <=> (responseEditor.present /\ ~IsBlank(ResponseText))
           /\ Forwarded' => IsTrimOf(calls'[1].text, ResponseText)

====
